---- MODULE Spec2Model ----
(***************************************************************************)
(* Model of the model-lifecycle registry of the AI Core System:            *)
(*   app/core/model_manager.py   ModelManager (load / unload / generate)   *)
(*   app/api/endpoints.py        load_model (force), generate_text         *)
(*   app/api/routes.py           generate_text, load_model, unload_model   *)
(*   app/api/routes.py           check_rate_limit, batch_generate          *)
(*   app/api/endpoints.py        generate_text with the response cache     *)
(*   main.py, app/main.py        lifespan (shutdown)                       *)
(* Request handlers run on worker threads (tests/test_api.py drives the    *)
(* API from several threads), so every access of ModelManager to its       *)
(* shared dictionaries is a separate step of the calling worker.           *)
(***************************************************************************)
EXTENDS Naturals, Integers, Sequences, FiniteSets, TLC

\* ------------------------------------------------------------------ bounds
\* Number of successful commits (time.time() readings) explored.
MaxClock == 3

\* Ticks of the wall clock explored by the rate limiter, and ticks in a minute.
MaxTime == 3
TicksPerMinute == 2
\* Settings.rate_limit_per_minute, scaled down from 60.
RateLimitPerMinute == 2
\* Rate-limited requests explored.
MaxRequests == 4

\* Requests in one batch.
MaxBatch == 3

\* --------------------------------------------------------------- constants
\* Settings.max_model_memory_gb (GB).
MaxModelMemoryGB == 16
\* "max_memory": "8GB" of a model configuration.
ConfigMaxMemoryGB == 8

Workers == {"w1", "w2"}
\* The single worker of the sequential specification.
SeqWorker == "w1"

\* Names with an entry in models.json, and one name without.
ModelNames == {"m1", "m2", "m3"}
Unconfigured == "nx"
RequestNames == ModelNames \cup {Unconfigured}
\* Python None / empty string of an optional request field.
NoModel == "None"
\* Names a worker's requests are drawn from: the first worker asks for any name,
\* the second competes with it for the default model.
Requested(p) == IF p = "w1" THEN RequestNames ELSE {"m1"}
\* The load endpoints a worker is asked through, <<revision, force>>.
LoadForms(p) ==
    IF p = "w1" THEN {<<"endpoints", TRUE>>, <<"endpoints", FALSE>>, <<"routes", FALSE>>}
    ELSE {<<"routes", FALSE>>}
\* The generate requests a worker receives, <<revision, model field>>.
GenerateForms(p) ==
    IF p = "w1" THEN {"routes", "endpoints"} \X (RequestNames \cup {NoModel})
    ELSE {<<"routes", "m1">>}
\* Settings.default_model.
DefaultModel == "m1"

\* Settings.api_keys: the configured keys.
ApiKeys == {"valid"}
\* request.headers.get(api_key_header): a configured key, another key, no header.
NoKey == "none"
\* The keys a worker's requests carry: the first worker also sends requests
\* for the default model without a key or with a key that is not configured.
Keys(p, m) == IF p = "w1" /\ m \in {DefaultModel, NoModel} THEN {"valid", "invalid", NoKey} ELSE {"valid"}

\* Keys of one loaded_models entry.
EntryKeys == {"pipeline", "tokenizer", "model", "config", "loaded_at"}
NoEntry == 0
EntryIds == 1..MaxClock

NoConfig == [present |-> FALSE, quantization |-> "none", max_memory |-> 0]
Config(q) == [present |-> TRUE, quantization |-> q, max_memory |-> ConfigMaxMemoryGB]

VARIABLES
    loaded_models,   \* self.loaded_models: name -> entry object (NoEntry: key absent)
    entries,         \* heap of entry dictionaries: entry object -> keys still present
    model_configs,   \* self.model_configs: name -> configuration
    device,          \* self.device
    clock,           \* time.time() as a logical clock; loaded_at of the last commit
    current_model,   \* the registry's current model (app/models/manager.py)
    last_used,       \* loaded names, least recently used first
    pc,              \* position of each worker in its handler
    req,             \* the request a worker serves
    model_name,      \* local model_name of the handler / ModelManager method
    model_data,      \* local model_data of unload_model
    result,          \* outcome handed to the caller
    callEv,          \* loader events of the current request, in order
    before,          \* last_used (the loaded names) when load_model was entered
    entry_config,    \* heap of entry dictionaries: entry object -> its "config" value
    settings_keys,   \* whether Settings declares default_api_key and admin_api_key
    config_readable, \* whether load_config could read models.json
    sessions,        \* Redis: session id -> stored session data
    response,        \* the last answer of a handler that does not use the registry
    now,             \* time.time(), in ticks
    rate_store,      \* Redis: minute bucket of "rate_limit:{api_key}:{minute}" -> counter, expiry
    rate_pc,         \* position of each request inside check_rate_limit
    rate_at,         \* time.time() when the request computed its rate_key
    rate_requests,   \* requests that have entered check_rate_limit
    admitted,        \* arrival tick -> requests check_rate_limit has let through
    phase,           \* the application lifespan: "running", "stopped" after its exit
    auto_load,       \* whether the deployment asks for models to be loaded on demand
    cache            \* Redis: cache key of a generate request -> cached response

\* The state of ModelManager and of the workers serving registry requests.
regVars == <<loaded_models, entries, model_configs, device, clock, current_model,
             last_used, pc, req, model_name, model_data, result, callEv, before,
             entry_config>>

\* The deployment: what Settings declares, whether models.json was readable,
\* the lifespan of the application and the load policy asked for.
cfgVars == <<settings_keys, config_readable, phase, auto_load>>

\* The state the registry handlers read or leave alone.
\* The state of the rate limiter.
rateVars == <<now, rate_store, rate_pc, rate_at, rate_requests, admitted>>

envVars == <<cfgVars, sessions, response, rateVars, cache>>

vars == <<regVars, envVars>>

\* Session ids: one a client sends, one uuid4() makes when the client sends none.
SessionIds == {"s1", "s2"}
NewSessionId == "s2"
NoSession == "None"
\* Session data; request.data may be missing.
SessionData == {"d1", "d2"}
NoData == "None"

\* The answer of a handler: endpoint, HTTP status, the fields of the body,
\* its status/success value, the data it carries, the request it answers and
\* the arguments handed to the pipeline.
Response(e, c, f, st, d, rq, sn) ==
    [endpoint |-> e, code |-> c, fields |-> f, status |-> st, data |-> d,
     request |-> rq, sent |-> sn]
NoResponse == Response("none", 0, {}, "none", NoData, <<>>, <<>>)

\* A request: its operation, model field, force flag, the revision of the API
\* serving it and its API key; `loaded` and `empty` record what the registry
\* held when it arrived (the named model was loaded; nothing was loaded and no
\* current model was set).
Request(o, m, f, a, k, l, e) ==
    [op |-> o, model |-> m, force |-> f, api |-> a, key |-> k,
     loaded |-> l, empty |-> e]
NoReq == Request("none", NoModel, FALSE, "none", NoKey, FALSE, FALSE)

\* Bodies of POST /generate: the same prompt without and with a model field.
GenerateRequests == {[prompt |-> "p1", model |-> NoModel], [prompt |-> "p1", model |-> "m2"]}
\* Line 87: cache_key = f"generate:{hash(request.json())}"
cache_key(request) == <<"generate", request>>
CacheKeys == {cache_key(q) : q \in GenerateRequests}
\* redis_client.get of a key that is not there: the default, None.
NoCache == [response |-> "", model |-> NoModel]
\* Texts a generation returns; the empty text.
Texts == {"t1", "t2"}
NoText == ""

\* Requests of one API key inside check_rate_limit at the same time.
RateClients == {"r1", "r2"}
Times == 0..MaxTime
\* int(time.time() // 60)
rate_key(t) == t \div TicksPerMinute
Buckets == {rate_key(t) : t \in Times}
\* A Redis key that does not exist: GET answers None, INCR starts from 0;
\* expires = 0 is a key without TTL.
NoCounter == [count |-> 0, expires |-> 0]

\* The elements of a sequence.
Range(s) == {s[i] : i \in 1..Len(s)}

\* ------------------------------------------------------------ pure helpers
\* ModelManager.get_loaded_models
get_loaded_models == {m \in RequestNames : loaded_models[m] # NoEntry}

\* ModelManager.is_model_loaded
is_model_loaded(m) == loaded_models[m] # NoEntry

\* An entry as load_model commits it: every key present.
FullyLoaded(m) == is_model_loaded(m) /\ entries[loaded_models[m]] = EntryKeys

\* Memory held by the loaded models, in GB.
RECURSIVE SumMemory(_)
SumMemory(S) ==
    IF S = {} THEN 0
    ELSE LET m == CHOOSE x \in S : TRUE
         IN model_configs[m].max_memory + SumMemory(S \ {m})

TotalMemory == SumMemory(get_loaded_models)

\* Sequence s without the element x.
RECURSIVE Without(_, _)
Without(s, x) ==
    IF s = <<>> THEN <<>>
    ELSE IF Head(s) = x THEN Without(Tail(s), x)
    ELSE <<Head(s)>> \o Without(Tail(s), x)

\* Handle.lastUsedAt: x becomes the most recently used name.
Touch(s, x) == Without(s, x) \o <<x>>

\* Mutant: unload leaves the current model as it is.
KeepCurrent(cur, m) == cur

\* unload clears currentModel when it names the unloaded model.
ClearCurrent(cur, m) == IF cur = m THEN NoModel ELSE cur

\* Reference counting: an entry dictionary that neither the map nor a local
\* model_data refers to is freed.
Collect(ent, lm, md) ==
    [i \in EntryIds |->
        IF (\E m \in RequestNames : lm[m] = i) \/ (\E q \in Workers : md[q] = i)
        THEN ent[i] ELSE {}]

\* The "config" values of the entry dictionaries that are still alive.
CollectConfig(ec, ent) == [i \in EntryIds |-> IF ent[i] = {} THEN NoConfig ELSE ec[i]]

\* Line 206: "config": config, the configuration read at line 92.
CommitConfig(ec, id, config) == [ec EXCEPT ![id] = config]

\* Workers inside the loading part of load_model (lines 107-208).
LoaderPcs == {"l_tok", "l_tok_legacy", "l_model", "l_commit"}
LoadPcs == {"l_check"} \cup LoaderPcs
InLoader(p, m) == pc[p] \in LoaderPcs /\ model_name[p] = m

\* A worker whose request may still reach the commit of load_model.
MayCommit(q) ==
    /\ pc[q] \notin {"idle", "done", "g_fetch", "g_run"}
    /\ req[q].op \in {"load", "generate"}

\* A new load may start only while the explored clock range has room for its commit.
ClockRoom == clock + Cardinality({q \in Workers : MayCommit(q)}) < MaxClock

\* The "models" object of models.json.
FileConfigs ==
    [m \in RequestNames |->
        IF m = "m1" THEN Config("4bit")
        ELSE IF m \in ModelNames THEN Config("none")
        ELSE NoConfig]

\* ModelManager.load_config: model_configs after the call. A file that cannot
\* be read leaves model_configs empty; the default configuration of lines
\* 63-79 is only returned to the caller.
load_config(readable) ==
    IF readable THEN FileConfigs ELSE [m \in RequestNames |-> NoConfig]

\* Mutant: a name without configuration is loaded with a default configuration.
HasConfigOrDefault(m) == TRUE

\* Line 88: model_name in self.model_configs
HasConfig(m) == model_configs[m].present

\* ------------------------------------------------------------------- Init
Init ==
    /\ loaded_models = [m \in RequestNames |-> NoEntry]
    /\ entries = [i \in EntryIds |-> {}]
    /\ config_readable \in BOOLEAN
    /\ model_configs = load_config(config_readable)
    /\ device \in {"cuda", "cpu"}
    /\ clock = 0
    /\ current_model = NoModel
    /\ last_used = <<>>
    /\ pc = [p \in Workers |-> "idle"]
    /\ req = [p \in Workers |-> NoReq]
    /\ model_name = [p \in Workers |-> NoModel]
    /\ model_data = [p \in Workers |-> NoEntry]
    /\ result = [p \in Workers |-> "none"]
    /\ callEv = [p \in Workers |-> <<>>]
    /\ before = [p \in Workers |-> <<>>]
    /\ entry_config = [i \in EntryIds |-> NoConfig]
    /\ settings_keys \in {"declared", "missing"}
    /\ sessions = [i \in SessionIds |-> NoData]
    /\ response = NoResponse
    /\ now = 0
    /\ rate_store = [b \in Buckets |-> NoCounter]
    /\ rate_pc = [c \in RateClients |-> "idle"]
    /\ rate_at = [c \in RateClients |-> 0]
    /\ rate_requests = 0
    /\ admitted = [t \in Times |-> 0]
    /\ phase = "running"
    /\ auto_load = TRUE
    /\ cache = [k \in CacheKeys |-> NoCache]

\* The worker's handler returns `r` to its caller.
Finish(p, r) ==
    /\ pc' = [pc EXCEPT ![p] = "done"]
    /\ result' = [result EXCEPT ![p] = r]

\* --------------------------------------------------------- authentication
\* routes.py verify_api_key: no header -> 401, a key outside settings.api_keys -> 401.
verify_api_key(key) ==
    IF key = NoKey THEN "error401"
    ELSE IF key \notin ApiKeys THEN "error401"
    ELSE "ok"

\* endpoints.py get_api_key: no header -> 401; then line 53 reads
\* settings.default_api_key and settings.admin_api_key, which raises
\* AttributeError (answered 500) when Settings does not declare them;
\* a key outside the two -> 401.
get_api_key(key) ==
    IF key = NoKey THEN "error401"
    ELSE IF settings_keys = "missing" THEN "error500"
    ELSE IF key \notin ApiKeys THEN "error401"
    ELSE "ok"

\* Depends(verify_api_key) / Depends(get_api_key) runs before the handler body.
Authenticate(api, key) ==
    IF api = "routes" THEN verify_api_key(key) ELSE get_api_key(key)

\* ------------------------------------------------------- request arrival
\* POST /models/load: endpoints.py load_model takes a force flag and looks at the
\* registry first; routes.py load_model calls ModelManager.load_model at once.
CallLoad(p) ==
    /\ pc[p] = "idle"
    /\ ClockRoom
    /\ \E m \in Requested(p), v \in LoadForms(p) : \E k \in Keys(p, m) :
         LET auth == Authenticate(v[1], k)
         IN IF auth # "ok"
            THEN /\ req' = [req EXCEPT ![p] = Request("load", m, v[2], v[1], k, FALSE, FALSE)]
                 /\ Finish(p, auth)
                 /\ UNCHANGED model_name
            ELSE /\ req' = [req EXCEPT ![p] = Request("load", m, v[2], v[1], k,
                                  loaded_models[m] # NoEntry, FALSE)]
                 /\ model_name' = [model_name EXCEPT ![p] = m]
                 /\ pc' = [pc EXCEPT ![p] = IF v[1] = "endpoints" THEN "e_load" ELSE "l_check"]
                 /\ UNCHANGED result
    /\ UNCHANGED <<loaded_models, entries, entry_config, model_configs, device, clock, current_model,
                   last_used, model_data, callEv, before>>
    /\ UNCHANGED envVars

\* POST /models/unload.
CallUnload(p) ==
    /\ pc[p] = "idle"
    /\ \E m \in Requested(p) : \E k \in Keys(p, m) :
         LET auth == Authenticate("routes", k)
         IN IF auth # "ok"
            THEN /\ req' = [req EXCEPT ![p] = Request("unload", m, FALSE, "routes", k, FALSE, FALSE)]
                 /\ Finish(p, auth)
                 /\ UNCHANGED model_name
            ELSE /\ req' = [req EXCEPT ![p] = Request("unload", m, FALSE, "routes", k,
                                  loaded_models[m] # NoEntry, FALSE)]
                 /\ model_name' = [model_name EXCEPT ![p] = m]
                 /\ pc' = [pc EXCEPT ![p] = "u_check"]
                 /\ UNCHANGED result
    /\ UNCHANGED <<loaded_models, entries, entry_config, model_configs, device, clock, current_model,
                   last_used, model_data, callEv, before>>
    /\ UNCHANGED envVars

\* POST /generate, served by routes.py or by endpoints.py.
CallGenerate(p) ==
    /\ pc[p] = "idle"
    /\ ClockRoom
    /\ \E v \in GenerateForms(p) : \E k \in Keys(p, v[2]) :
         LET auth == Authenticate(v[1], k)
         IN IF auth # "ok"
            THEN /\ req' = [req EXCEPT ![p] = Request("generate", v[2], FALSE, v[1], k, FALSE, FALSE)]
                 /\ Finish(p, auth)
            ELSE /\ req' = [req EXCEPT ![p] = Request("generate", v[2], FALSE, v[1], k, FALSE,
                                  current_model = NoModel /\ \A n \in RequestNames : loaded_models[n] = NoEntry)]
                 /\ pc' = [pc EXCEPT ![p] = "g_resolve"]
                 /\ UNCHANGED result
    /\ UNCHANGED <<loaded_models, entries, entry_config, model_configs, device, clock, current_model,
                   last_used, model_name, model_data, callEv, before>>
    /\ UNCHANGED envVars

\* Registry.setCurrent(name): the current model names a loaded handle.
SetCurrent(p) ==
    /\ pc[p] = "idle"
    /\ \E m \in ModelNames :
         /\ FullyLoaded(m)
         /\ current_model # m
         /\ current_model' = m
    /\ UNCHANGED <<loaded_models, entries, entry_config, model_configs, device, clock,
                   last_used, pc, req, model_name, model_data, result, callEv, before>>
    /\ UNCHANGED envVars

\* ------------------------------------------------ endpoints.py load_model
\* Mutant: the forced load does not unload the loaded model first.
EndpointLoadNoUnload(p) ==
    /\ pc[p] = "e_load"
    /\ IF is_model_loaded(model_name[p]) /\ ~req[p].force
       THEN Finish(p, "true")
       ELSE pc' = [pc EXCEPT ![p] = "l_check"] /\ UNCHANGED result
    /\ UNCHANGED <<loaded_models, entries, entry_config, model_configs, device, clock, current_model,
                   last_used, req, model_name, model_data, callEv, before>>
    /\ UNCHANGED envVars

\* Lines 308-318: answer at once when loaded and not forced; unload first when
\* forced; then ModelManager.load_model.
EndpointLoad(p) ==
    /\ pc[p] = "e_load"
    /\ IF is_model_loaded(model_name[p]) /\ ~req[p].force
       THEN Finish(p, "true")
       ELSE /\ pc' = [pc EXCEPT ![p] =
                      IF req[p].force /\ is_model_loaded(model_name[p])
                      THEN "u_check" ELSE "l_check"]
            /\ UNCHANGED result
    /\ UNCHANGED <<loaded_models, entries, entry_config, model_configs, device, clock, current_model,
                   last_used, req, model_name, model_data, callEv, before>>
    /\ UNCHANGED envVars

\* --------------------------------------------- ModelManager.load_model
\* Mutant: a failure of the loader is not caught; the caller is never released.
LoadReturnsLeavesWaiting(p, ok) ==
    IF ok
    THEN IF req[p].op = "generate"
         THEN pc' = [pc EXCEPT ![p] = "g_fetch"] /\ UNCHANGED result
         ELSE Finish(p, "true")
    ELSE pc' = [pc EXCEPT ![p] = "l_wait"] /\ UNCHANGED result

\* load_model hands its boolean to its caller: the load endpoint returns it,
\* generate_response goes on to the inference or raises.
LoadReturns(p, ok) ==
    IF req[p].op = "generate"
    THEN IF ok
         THEN pc' = [pc EXCEPT ![p] = "g_fetch"] /\ UNCHANGED result
         ELSE Finish(p, "error500")
    ELSE Finish(p, IF ok THEN "true" ELSE "false")

\* The quantization fallback of lines 103-105 writes into the shared configuration.
QuantizationFallback(cfgs, m) ==
    IF cfgs[m].quantization = "4bit" /\ device = "cpu"
    THEN [cfgs EXCEPT ![m].quantization = "none"]
    ELSE cfgs

\* Mutant: load_model without the test of lines 84-86.
LoadCheckNoHit(p) ==
    /\ pc[p] = "l_check"
    /\ before' = [before EXCEPT ![p] = IF req[p].op = "load" THEN last_used ELSE @]
    /\ IF ~HasConfig(model_name[p])
       THEN LoadReturns(p, FALSE) /\ UNCHANGED <<model_configs, callEv>>
       ELSE /\ model_configs' = QuantizationFallback(model_configs, model_name[p])
            /\ callEv' = [callEv EXCEPT ![p] = Append(@, "load")]
            /\ pc' = [pc EXCEPT ![p] = "l_tok"]
            /\ UNCHANGED result
    /\ UNCHANGED <<loaded_models, entries, entry_config, device, clock, current_model,
                   last_used, req, model_name, model_data>>
    /\ UNCHANGED envVars

\* Lines 84-105: already loaded -> True; no configuration -> False; otherwise
\* read the configuration and go on to the loader.
LoadCheck(p) ==
    /\ pc[p] = "l_check"
    /\ before' = [before EXCEPT ![p] = IF req[p].op = "load" THEN last_used ELSE @]
    /\ IF is_model_loaded(model_name[p])
       THEN LoadReturns(p, TRUE) /\ UNCHANGED <<model_configs, callEv>>
       ELSE IF ~HasConfig(model_name[p])
       THEN LoadReturns(p, FALSE) /\ UNCHANGED <<model_configs, callEv>>
       ELSE /\ model_configs' = QuantizationFallback(model_configs, model_name[p])
            /\ callEv' = [callEv EXCEPT ![p] = Append(@, "load")]
            /\ pc' = [pc EXCEPT ![p] = "l_tok"]
            /\ UNCHANGED result
    /\ UNCHANGED <<loaded_models, entries, entry_config, device, clock, current_model,
                   last_used, req, model_name, model_data>>
    /\ UNCHANGED envVars

\* Lines 107-118: AutoTokenizer.from_pretrained with the fast tokenizer; its
\* exception is caught at line 118 and the tokenizer is loaded a second time.
LoadTokenizer(p) ==
    /\ pc[p] = "l_tok"
    /\ \E ok \in BOOLEAN :
         pc' = [pc EXCEPT ![p] = IF ok THEN "l_model" ELSE "l_tok_legacy"]
    /\ UNCHANGED <<loaded_models, entries, entry_config, model_configs, device, clock, current_model,
                   last_used, req, model_name, model_data, result, callEv, before>>
    /\ UNCHANGED envVars

\* Lines 118-127: the second attempt, with use_fast=False; its
\* exception ends load_model with False (lines 211-213).
LoadTokenizerLegacy(p) ==
    /\ pc[p] = "l_tok_legacy"
    /\ \E ok \in BOOLEAN :
         IF ok
         THEN pc' = [pc EXCEPT ![p] = "l_model"] /\ UNCHANGED result
         ELSE LoadReturns(p, FALSE)
    /\ UNCHANGED <<loaded_models, entries, entry_config, model_configs, device, clock, current_model,
                   last_used, req, model_name, model_data, callEv, before>>
    /\ UNCHANGED envVars

\* Mutant: the entry is registered once the model is read, before pipeline()
\* has succeeded, and stays when pipeline() raises.
LoadModelRegistersFirst(p) ==
    /\ pc[p] = "l_model"
    /\ \E ok \in BOOLEAN :
         IF ok
         THEN /\ pc' = [pc EXCEPT ![p] = "l_commit"]
              /\ UNCHANGED <<result, loaded_models, entries, entry_config, clock>>
         ELSE /\ clock < MaxClock
              /\ clock' = clock + 1
              /\ loaded_models' = [loaded_models EXCEPT ![model_name[p]] = clock + 1]
              /\ entries' = [entries EXCEPT ![clock + 1] = EntryKeys \ {"pipeline"}]
              /\ entry_config' = [entry_config EXCEPT ![clock + 1] = model_configs[model_name[p]]]
              /\ LoadReturns(p, FALSE)
    /\ UNCHANGED <<model_configs, device, current_model,
                   last_used, req, model_name, model_data, callEv, before>>
    /\ UNCHANGED envVars

\* Lines 132-201: from_pretrained (with or without adapter) and pipeline();
\* any exception ends load_model with False.
LoadModel(p) ==
    /\ pc[p] = "l_model"
    /\ \E ok \in BOOLEAN :
         IF ok
         THEN pc' = [pc EXCEPT ![p] = "l_commit"] /\ UNCHANGED result
         ELSE LoadReturns(p, FALSE)
    /\ UNCHANGED <<loaded_models, entries, entry_config, model_configs, device, clock, current_model,
                   last_used, req, model_name, model_data, callEv, before>>
    /\ UNCHANGED envVars

\* Lines 202-210: self.loaded_models[model_name] = {...}; return True.
CommitEntry(lm, m, id) == [lm EXCEPT ![m] = id]

LoadCommit(p) ==
    /\ pc[p] = "l_commit"
    /\ clock < MaxClock
    /\ clock' = clock + 1
    /\ loaded_models' = CommitEntry(loaded_models, model_name[p], clock + 1)
    /\ entries' = Collect([entries EXCEPT ![clock + 1] = EntryKeys], loaded_models', model_data)
    /\ entry_config' = CollectConfig(CommitConfig(entry_config, clock + 1, model_configs[model_name[p]]),
                                     entries')
    /\ last_used' = Touch(last_used, model_name[p])
    /\ LoadReturns(p, TRUE)
    /\ UNCHANGED <<model_configs, device, current_model,
                   req, model_name, model_data, callEv, before>>
    /\ UNCHANGED envVars

\* -------------------------------------------- ModelManager.unload_model
\* unload_model hands its boolean to its caller: the unload endpoint returns it,
\* the forced load endpoint ignores it and goes on to load_model.
UnloadReturns(p, ok) ==
    /\ model_data' = [model_data EXCEPT ![p] = NoEntry]
    /\ IF req[p].op = "load"
       THEN pc' = [pc EXCEPT ![p] = "l_check"] /\ UNCHANGED result
       ELSE Finish(p, IF ok THEN "true" ELSE "false")

\* Mutant: the unload of a name that is not loaded is reported as a failure.
UnloadCheckStrict(p) ==
    /\ pc[p] = "u_check"
    /\ IF ~is_model_loaded(model_name[p])
       THEN UnloadReturns(p, FALSE)
       ELSE pc' = [pc EXCEPT ![p] = "u_fetch"] /\ UNCHANGED <<result, model_data>>
    /\ UNCHANGED <<loaded_models, entries, entry_config, model_configs, device, clock, current_model,
                   last_used, req, model_name, callEv, before>>
    /\ UNCHANGED envVars

\* Lines 218-220: a name that is not loaded is a no-op that returns True.
UnloadCheck(p) ==
    /\ pc[p] = "u_check"
    /\ IF ~is_model_loaded(model_name[p])
       THEN UnloadReturns(p, TRUE)
       ELSE pc' = [pc EXCEPT ![p] = "u_fetch"] /\ UNCHANGED <<result, model_data>>
    /\ UNCHANGED <<loaded_models, entries, entry_config, model_configs, device, clock, current_model,
                   last_used, req, model_name, callEv, before>>
    /\ UNCHANGED envVars

\* Line 223: model_data = self.loaded_models[model_name]; a KeyError ends
\* unload_model with False (lines 238-240).
UnloadFetch(p) ==
    /\ pc[p] = "u_fetch"
    /\ IF is_model_loaded(model_name[p])
       THEN /\ model_data' = [model_data EXCEPT ![p] = loaded_models[model_name[p]]]
            /\ pc' = [pc EXCEPT ![p] = "u_del_pipeline"]
            /\ UNCHANGED result
       ELSE UnloadReturns(p, FALSE)
    /\ UNCHANGED <<loaded_models, entries, entry_config, model_configs, device, clock, current_model,
                   last_used, req, model_name, callEv, before>>
    /\ UNCHANGED envVars

\* del model_data[key]: removes the key, or raises KeyError when it is gone.
DelKey(p, key, next) ==
    /\ IF key \in entries[model_data[p]]
       THEN /\ entries' = [entries EXCEPT ![model_data[p]] = @ \ {key}]
            /\ pc' = [pc EXCEPT ![p] = next]
            /\ UNCHANGED <<result, model_data>>
       ELSE /\ UnloadReturns(p, FALSE)
            /\ entries' = Collect(entries, loaded_models, model_data')
    /\ entry_config' = CollectConfig(entry_config, entries')

\* Line 224: del model_data["pipeline"]
UnloadDelPipeline(p) ==
    /\ pc[p] = "u_del_pipeline"
    /\ DelKey(p, "pipeline", "u_del_model")
    /\ UNCHANGED <<loaded_models, model_configs, device, clock, current_model,
                   last_used, req, model_name, callEv, before>>
    /\ UNCHANGED envVars

\* Line 225: del model_data["model"]
UnloadDelModel(p) ==
    /\ pc[p] = "u_del_model"
    /\ DelKey(p, "model", "u_del_tokenizer")
    /\ UNCHANGED <<loaded_models, model_configs, device, clock, current_model,
                   last_used, req, model_name, callEv, before>>
    /\ UNCHANGED envVars

\* Line 226: del model_data["tokenizer"]
UnloadDelTokenizer(p) ==
    /\ pc[p] = "u_del_tokenizer"
    /\ DelKey(p, "tokenizer", "u_del_entry")
    /\ UNCHANGED <<loaded_models, model_configs, device, clock, current_model,
                   last_used, req, model_name, callEv, before>>
    /\ UNCHANGED envVars

\* Mutant: the entry is emptied but never taken out of the map.
RemoveEntryForgotten(lm, m) == lm

\* Line 227: del self.loaded_models[model_name]
RemoveEntry(lm, m) == [lm EXCEPT ![m] = NoEntry]

\* Lines 227-236: the entry now under the name leaves the map, the memory is
\* collected and unload_model returns True; a KeyError returns False.
UnloadDelEntry(p) ==
    /\ pc[p] = "u_del_entry"
    /\ IF is_model_loaded(model_name[p])
       THEN /\ loaded_models' = RemoveEntry(loaded_models, model_name[p])
            /\ current_model' = ClearCurrent(current_model, model_name[p])
            /\ last_used' = Without(last_used, model_name[p])
            /\ callEv' = [callEv EXCEPT ![p] = Append(@, "teardown")]
            /\ UnloadReturns(p, TRUE)
       ELSE /\ UnloadReturns(p, FALSE)
            /\ UNCHANGED <<loaded_models, current_model, last_used, callEv>>
    /\ entries' = Collect(entries, loaded_models', model_data')
    /\ entry_config' = CollectConfig(entry_config, entries')
    /\ UNCHANGED <<model_configs, device, clock, req, model_name, before>>
    /\ UNCHANGED envVars

\* ------------------------------------------------------ generate handlers
\* routes.py lines 127-133: the requested model, else the current model, else
\* 400; endpoints.py line 102: the requested model, else settings.default_model.
ResolveModel(api, requested) ==
    IF requested # NoModel THEN requested
    ELSE IF api = "routes" THEN current_model
    ELSE DefaultModel

GenerateResolve(p) ==
    /\ pc[p] = "g_resolve"
    /\ LET name == ResolveModel(req[p].api, req[p].model)
       IN IF name = NoModel
          THEN Finish(p, "error400") /\ UNCHANGED model_name
          ELSE /\ model_name' = [model_name EXCEPT ![p] = name]
               /\ pc' = [pc EXCEPT ![p] = "g_check"]
               /\ UNCHANGED result
    /\ UNCHANGED <<loaded_models, entries, entry_config, model_configs, device, clock, current_model,
                   last_used, req, model_data, callEv, before>>
    /\ UNCHANGED envVars

\* ---------------------------------------- ModelManager.generate_response
\* Lines 252-255: a model that is not loaded is loaded first.
GenerateCheck(p) ==
    /\ pc[p] = "g_check"
    /\ pc' = [pc EXCEPT ![p] = IF is_model_loaded(model_name[p]) THEN "g_fetch" ELSE "l_check"]
    /\ UNCHANGED <<loaded_models, entries, entry_config, model_configs, device, clock, current_model,
                   last_used, req, model_name, model_data, result, callEv, before>>
    /\ UNCHANGED envVars

\* Lines 257-259: model_data = self.loaded_models[model_name];
\* pipeline = model_data["pipeline"]; a KeyError is raised as an inference failure.
GenerateFetch(p) ==
    /\ pc[p] = "g_fetch"
    /\ IF is_model_loaded(model_name[p]) /\ "pipeline" \in entries[loaded_models[model_name[p]]]
       THEN /\ pc' = [pc EXCEPT ![p] = "g_run"]
            /\ last_used' = Touch(last_used, model_name[p])
            /\ UNCHANGED result
       ELSE Finish(p, "error500") /\ UNCHANGED last_used
    /\ UNCHANGED <<loaded_models, entries, entry_config, model_configs, device, clock, current_model,
                   req, model_name, model_data, callEv, before>>
    /\ UNCHANGED envVars

\* What the generate handler answers for the outcome of generate_response:
\* endpoints.py lines 113-117 answer 500 for an empty text; routes.py lines
\* 146-151 test the result object, not its text, and answer 200 with response "".
GenerateAnswer(api, outcome) ==
    IF outcome = "empty" /\ api = "endpoints" THEN "error500" ELSE outcome

\* Lines 262-304: the pipeline call returns text, returns no output (line 282:
\* the response is ""), or raises.
GenerateRun(p) ==
    /\ pc[p] = "g_run"
    /\ \E outcome \in {"text", "empty", "error500"} :
         Finish(p, GenerateAnswer(req[p].api, outcome))
    /\ UNCHANGED <<loaded_models, entries, entry_config, model_configs, device, clock, current_model,
                   last_used, req, model_name, model_data, callEv, before>>
    /\ UNCHANGED envVars

\* The response is sent; the worker takes the next request.
Return(p) ==
    /\ pc[p] = "done"
    /\ pc' = [pc EXCEPT ![p] = "idle"]
    /\ req' = [req EXCEPT ![p] = NoReq]
    /\ model_name' = [model_name EXCEPT ![p] = NoModel]
    /\ model_data' = [model_data EXCEPT ![p] = NoEntry]
    /\ result' = [result EXCEPT ![p] = "none"]
    /\ callEv' = [callEv EXCEPT ![p] = <<>>]
    /\ before' = [before EXCEPT ![p] = <<>>]
    /\ UNCHANGED <<loaded_models, entries, entry_config, model_configs, device, clock, current_model,
                   last_used>>
    /\ UNCHANGED envVars

\* ------------------------------------------------------------ specification
Step(p) ==
    \/ CallLoad(p)
    \/ CallUnload(p)
    \/ CallGenerate(p)
    \/ SetCurrent(p)
    \/ EndpointLoad(p)
    \/ LoadCheck(p)
    \/ LoadTokenizer(p)
    \/ LoadTokenizerLegacy(p)
    \/ LoadModel(p)
    \/ LoadCommit(p)
    \/ UnloadCheck(p)
    \/ UnloadFetch(p)
    \/ UnloadDelPipeline(p)
    \/ UnloadDelModel(p)
    \/ UnloadDelTokenizer(p)
    \/ UnloadDelEntry(p)
    \/ GenerateResolve(p)
    \/ GenerateCheck(p)
    \/ GenerateFetch(p)
    \/ GenerateRun(p)
    \/ Return(p)

\* Requests served concurrently by the workers.
Next == \E p \in Workers : Step(p)

Spec == Init /\ [][Next]_vars

\* Requests served one after the other.
SeqNext == Step(SeqWorker)

SeqSpec == Init /\ [][SeqNext]_vars

\* A worker that can take a step of its handler eventually takes one: the
\* calls of load_model (tokenizer, model, pipeline) return or raise.
FairSeqSpec == SeqSpec /\ WF_vars(SeqNext)

TypeOK ==
    /\ loaded_models \in [RequestNames -> {NoEntry} \cup EntryIds]
    /\ entries \in [EntryIds -> SUBSET EntryKeys]
    /\ clock \in 0..MaxClock
    /\ current_model \in ModelNames \cup {NoModel}
    /\ pc \in [Workers -> {"idle", "done", "stopped", "e_load", "l_check", "l_tok", "l_tok_legacy", "l_model",
                            "l_commit", "u_check", "u_fetch", "u_del_pipeline",
                            "u_del_model", "u_del_tokenizer", "u_del_entry",
                            "g_resolve", "g_check", "g_fetch", "g_run"}]

\* -------------------------------------------------------------- operations
\* models.json after an edit: m1 without quantization, m2 quantized, m3 removed.
EditedConfigs ==
    [m \in RequestNames |->
        IF m = "m1" THEN Config("none")
        ELSE IF m = "m2" THEN Config("4bit")
        ELSE NoConfig]

ConfigFiles == {FileConfigs, EditedConfigs}

\* Mutant: the reload also hands the new configuration to the loaded entries.
ReloadConfigRebinds ==
    /\ \A p \in Workers : pc[p] = "idle"
    /\ \E file \in ConfigFiles, readable \in BOOLEAN :
         /\ model_configs' = IF readable THEN file ELSE model_configs
         /\ entry_config' = [i \in EntryIds |->
                IF \E m \in RequestNames : loaded_models[m] = i
                THEN model_configs'[CHOOSE m \in RequestNames : loaded_models[m] = i]
                ELSE entry_config[i]]
    /\ UNCHANGED <<loaded_models, entries, device, clock, current_model, last_used,
                   pc, req, model_name, model_data, result, callEv, before>>
    /\ UNCHANGED envVars

\* ModelManager.load_config called again, between two requests: a file that
\* is read replaces self.model_configs (line 57); a file that cannot be read
\* leaves it as it was. Nothing else of the manager is touched.
ReloadConfig ==
    /\ \A p \in Workers : pc[p] = "idle"
    /\ \E file \in ConfigFiles, readable \in BOOLEAN :
         model_configs' = IF readable THEN file ELSE model_configs
    /\ UNCHANGED <<loaded_models, entries, entry_config, device, clock, current_model, last_used,
                   pc, req, model_name, model_data, result, callEv, before>>
    /\ UNCHANGED envVars

\* config.py reload_settings: Settings() is built again from the environment.
\* Settings declares no field for the load policy and ignores the entries it
\* does not declare (Config.extra = "ignore"), so what the deployment asks
\* for changes and nothing the registry reads does.
ReloadSettings ==
    /\ \A p \in Workers : pc[p] = "idle"
    /\ \E want \in BOOLEAN : want # auto_load /\ auto_load' = want
    /\ UNCHANGED <<regVars, settings_keys, config_readable, phase, sessions, response, rateVars, cache>>

\* The exit of the lifespan (main.py lines 61-73, app/main.py lines 66-76):
\* the server has stopped its workers, the Redis connection is closed and the
\* shutdown is logged as complete. The model manager is not called.
Shutdown ==
    /\ \A p \in Workers : pc[p] = "idle"
    /\ phase' = "stopped"
    /\ pc' = [p \in Workers |-> "stopped"]
    /\ UNCHANGED <<loaded_models, entries, entry_config, model_configs, device, clock, current_model,
                   last_used, req, model_name, model_data, result, callEv, before>>
    /\ UNCHANGED <<settings_keys, config_readable, auto_load, sessions, response, rateVars, cache>>

\* One worker serving requests while the operator reloads the configuration
\* or the settings, until the application is shut down.
OpsNext ==
    \/ SeqNext
    \/ ReloadConfig
    \/ ReloadSettings
    \/ Shutdown

OpsSpec == Init /\ [][OpsNext]_vars

\* ------------------------------------------------------------ GET /health
\* main.py health_check: get_redis_client() raises when Redis cannot be reached
\* for the first connection, RedisClient.health_check answers True or False,
\* the model manager's health_check answers a status or raises.
HealthCheck ==
    /\ response = NoResponse
    /\ \E redis \in {"healthy", "unhealthy", "raises"},
          manager \in {"healthy", "unhealthy", "raises"} :
         response' =
            IF redis = "raises" \/ manager = "raises"
            THEN Response("health", 200, {"status", "timestamp", "error"},
                          "unhealthy", NoData, <<redis, manager>>, <<>>)
            ELSE Response("health", 200, {"status", "timestamp", "services"},
                          IF redis = "healthy" /\ manager = "healthy"
                          THEN "healthy" ELSE "unhealthy",
                          NoData, <<redis, manager>>, <<>>)
    /\ UNCHANGED <<regVars, cfgVars, sessions, rateVars, cache>>

\* ---------------------------------------------------------- POST /sessions
SessionActions == {"create", "get", "update", "delete"}

\* The methods of RedisClient (app/utils/redis_client.py).
RedisClientMethods ==
    {"connect", "disconnect", "health_check", "get", "set", "delete", "exists",
     "expire", "incr", "hget", "hset", "hgetall", "lpush", "rpop", "llen",
     "cache_get", "cache_set", "cache_delete",
     "session_get", "session_set", "session_delete",
     "rate_limit_check", "get_memory_info"}

\* The method manage_session calls for an action (routes.py lines 593-607).
SessionMethod(action) ==
    IF action \in {"create", "update"} THEN "set_session_data"
    ELSE IF action = "get" THEN "get_session_data"
    ELSE "delete_session"

\* routes.py manage_session behind Depends(verify_api_key).
ManageSession ==
    /\ response = NoResponse
    /\ \E key \in {"valid", "invalid", NoKey},
          sid \in {"s1", NoSession},
          action \in SessionActions \cup {"purge"},
          data \in SessionData \cup {NoData},
          redis_up \in BOOLEAN :
         LET rq == <<key, sid, action, data, redis_up>>
             session_id == IF sid = NoSession THEN NewSessionId ELSE sid
             Error(code) == Response("sessions", code, {"detail"}, "error", NoData, rq, <<>>)
         IN IF verify_api_key(key) # "ok"
            THEN response' = Error(401) /\ UNCHANGED sessions
            ELSE IF ~redis_up
            THEN response' = Error(500) /\ UNCHANGED sessions
            ELSE IF action \notin SessionActions
            THEN response' = Error(400) /\ UNCHANGED sessions
            ELSE IF SessionMethod(action) \notin RedisClientMethods
            THEN \* AttributeError, caught at line 622
                 response' = Error(500) /\ UNCHANGED sessions
            ELSE IF action = "get"
            THEN /\ response' = Response("sessions", 200,
                                    {"session_id", "success", "data", "message"},
                                    "success", sessions[session_id], rq, <<>>)
                 /\ UNCHANGED sessions
            ELSE /\ sessions' = [sessions EXCEPT ![session_id] =
                                    IF action = "delete" THEN NoData ELSE data]
                 /\ response' = Response("sessions", 200,
                                    {"session_id", "success", "message"},
                                    "success", NoData, rq, <<>>)
    /\ UNCHANGED <<regVars, cfgVars, rateVars, cache>>

\* ----------------------------------------- generation parameters (merging)
\* A request field that the client left out.
Unspecified == -1
ParamFields == {"max_tokens", "temperature", "top_p"}
\* Field defaults of GenerationRequest (temperature and top_p in tenths).
RequestDefaults == [max_tokens |-> 512, temperature |-> 7, top_p |-> 9]
\* Lower bounds of GenerationRequest: max_tokens ge=1, the others ge=0.0.
RequestMinimum == [max_tokens |-> 1, temperature |-> 0, top_p |-> 0]
\* Values a client sends, and defaults a model configuration holds.
RequestValues == [max_tokens |-> {Unspecified, 0, 256},
                  temperature |-> {Unspecified, 0, 12},
                  top_p |-> {Unspecified, 0, 5}]
ConfigDefaults == [max_tokens |-> {512, 1024}, temperature |-> {7, 3}, top_p |-> {9, 8}]

\* pydantic: a field left out takes the field default.
ParseField(f, v) == IF v = Unspecified THEN RequestDefaults[f] ELSE v

\* generate_response lines 262-264: `value or config.get(field, default)`.
MergeParam(v, d) == IF v = 0 THEN d ELSE v

\* POST /generate up to the pipeline call of lines 269-277: the request is
\* validated, its fields are passed to generate_response and merged with the
\* configuration of the loaded model.
PipelineCall ==
    /\ response = NoResponse
    /\ \E rmt \in RequestValues.max_tokens, rt \in RequestValues.temperature,
          rtp \in RequestValues.top_p,
          cmt \in ConfigDefaults.max_tokens, ct \in ConfigDefaults.temperature,
          ctp \in ConfigDefaults.top_p :
         LET rq == [max_tokens |-> rmt, temperature |-> rt, top_p |-> rtp]
             cfg == [max_tokens |-> cmt, temperature |-> ct, top_p |-> ctp]
         IN IF \E f \in ParamFields : rq[f] # Unspecified /\ rq[f] < RequestMinimum[f]
            THEN response' = Response("generate", 422, {"detail"}, "error", NoData,
                                      <<rq, cfg>>, <<>>)
            ELSE response' = Response("generate", 200, {"response"}, "success", NoData,
                                      <<rq, cfg>>,
                                      [f \in ParamFields |-> MergeParam(ParseField(f, rq[f]), cfg[f])])
    /\ UNCHANGED <<regVars, cfgVars, sessions, rateVars, cache>>

\* ------------------------------------------------------------- POST /batch
\* What happens to one request of a batch: no model field and no current model;
\* generate returns a result; generate returns nothing; generate raises; the
\* result cannot be made into a GenerationResponse (its constructor raises).
BatchOutcomes == {"text", "no_model", "none", "raises", "invalid"}

\* BatchRequest.requests: pydantic rejects an empty list (validate_requests).
RECURSIVE Batches(_)
Batches(n) ==
    IF n = 0 THEN {<<>>}
    ELSE LET shorter == Batches(n - 1)
         IN shorter \cup {Append(b, o) : b \in {x \in shorter : Len(x) = n - 1}, o \in BatchOutcomes}

NoBatchResult == [responses |-> <<>>, successful_requests |-> 0, failed_requests |-> 0]

\* Mutant: a request without a model name is skipped without being counted.
BatchItemSkipsMissing(acc, i, outcome) ==
    IF outcome = "text"
    THEN [acc EXCEPT !.responses = Append(@, i), !.successful_requests = @ + 1]
    ELSE IF outcome = "no_model" THEN acc
    ELSE [acc EXCEPT !.failed_requests = @ + 1]

\* Lines 525-561, one turn of the loop: a result is appended to responses and
\* counted as successful; a missing model name (529-531), an empty result
\* (557-558) and any exception (560-562) are counted as failed.
BatchItem(acc, i, outcome) ==
    IF outcome = "text"
    THEN [acc EXCEPT !.responses = Append(@, i), !.successful_requests = @ + 1]
    ELSE [acc EXCEPT !.failed_requests = @ + 1]

\* The loop over request.requests, from request i on.
RECURSIVE BatchLoop(_, _, _)
BatchLoop(acc, requests, i) ==
    IF i > Len(requests) THEN acc
    ELSE BatchLoop(BatchItem(acc, i, requests[i]), requests, i + 1)

\* routes.py batch_generate behind Depends(verify_api_key) and check_rate_limit;
\* get_model_manager() may raise, which is answered 500.
BatchGenerate ==
    /\ response = NoResponse
    /\ \E key \in {"valid", "invalid", NoKey},
          requests \in Batches(MaxBatch),
          limited \in BOOLEAN,
          manager_up \in BOOLEAN :
         LET rq == <<key, requests, limited, manager_up>>
             Error(code) == Response("batch", code, {"detail"}, "error", NoBatchResult, rq, <<>>)
             out == BatchLoop(NoBatchResult, requests, 1)
         IN response' =
              IF requests = <<>> THEN Error(422)
              ELSE IF verify_api_key(key) # "ok" THEN Error(401)
              ELSE IF limited THEN Error(429)
              ELSE IF ~manager_up THEN Error(500)
              ELSE Response("batch", 200,
                            {"responses", "total_processing_time",
                             "successful_requests", "failed_requests"},
                            "success", out, rq, out.responses)
    /\ UNCHANGED <<regVars, cfgVars, sessions, rateVars, cache>>

\* ------------------------------------------- POST /generate with the cache
\* app/core/redis_client.py RedisClient.get: the stored value, the default when
\* the key is not there or the command raises RedisError.
CacheGet(c, key, redis) == IF redis = "up" THEN c[key] ELSE NoCache

\* RedisClient.set: the value is stored unless the command raises RedisError.
CacheSet(c, key, value, redis) == IF redis = "up" THEN [c EXCEPT ![key] = value] ELSE c

\* Mutant: the generated text is not tested before it is cached.
CacheableAlways(response_text) == TRUE

\* Line 113: if not response_text: raise HTTPException(500)
Cacheable(response_text) == response_text # NoText

\* endpoints.py generate_text behind Depends(get_api_key). The client property
\* of RedisClient raises RuntimeError when Redis was never connected
\* ("closed"); both commands catch RedisError ("error"). Line 128 reads
\* settings.cache_ttl, which raises AttributeError when Settings does not
\* declare it.
CachedGenerate ==
    /\ response = NoResponse
    /\ \E key \in {"valid", "invalid", NoKey},
          request \in GenerateRequests,
          redis_get \in {"up", "error", "closed"},
          outcome \in Texts \cup {NoText, "raises"},
          ttl_declared \in BOOLEAN,
          redis_set \in {"up", "error"} :
         LET rq == [key |-> key, request |-> request, redis_get |-> redis_get,
                    outcome |-> outcome, ttl_declared |-> ttl_declared,
                    redis_set |-> redis_set]
             auth == get_api_key(key)
             fields == {"response", "model", "tokens_used", "processing_time", "cached"}
             Error(code, calls) ==
                 Response("cached_generate", code, {"detail"}, "error", NoText, rq, calls)
             cached_response == CacheGet(cache, cache_key(request), redis_get)
             model == IF request.model # NoModel THEN request.model ELSE DefaultModel
         IN IF auth # "ok"
            THEN /\ response' = Error(IF auth = "error401" THEN 401 ELSE 500, <<>>)
                 /\ UNCHANGED cache
            ELSE IF redis_get = "closed"
            THEN response' = Error(500, <<>>) /\ UNCHANGED cache
            ELSE IF cached_response # NoCache
            THEN /\ response' = Response("cached_generate", 200, fields, "cached",
                                          cached_response.response, rq, <<>>)
                 /\ UNCHANGED cache
            ELSE IF outcome = "raises" \/ ~Cacheable(outcome)
            THEN response' = Error(500, <<"generate">>) /\ UNCHANGED cache
            ELSE IF ~ttl_declared
            THEN response' = Error(500, <<"generate">>) /\ UNCHANGED cache
            ELSE /\ cache' = CacheSet(cache, cache_key(request),
                                      [response |-> outcome, model |-> model], redis_set)
                 /\ response' = Response("cached_generate", 200, fields, "fresh",
                                          outcome, rq, <<"generate">>)
    /\ UNCHANGED <<regVars, cfgVars, sessions, rateVars>>

\* Redis drops a cached response whose TTL (settings.cache_ttl) has run out.
CacheExpire ==
    /\ response = NoResponse
    /\ \E k \in CacheKeys :
         /\ cache[k] # NoCache
         /\ cache' = [cache EXCEPT ![k] = NoCache]
    /\ UNCHANGED <<regVars, cfgVars, sessions, response, rateVars>>

\* The answer is sent; the next request can be served.
SendResponse ==
    /\ response # NoResponse
    /\ response' = NoResponse
    /\ UNCHANGED <<regVars, cfgVars, sessions, rateVars, cache>>

\* Handlers that do not use the registry, one request at a time.
ApiNext ==
    \/ HealthCheck
    \/ ManageSession
    \/ PipelineCall
    \/ BatchGenerate
    \/ CachedGenerate
    \/ CacheExpire
    \/ SendResponse

ApiSpec == Init /\ [][ApiNext]_vars

\* ------------------------------------------------------------ rate limiting
\* routes.py check_rate_limit, lines 76-80: the request enters behind
\* verify_api_key and computes its rate_key from the clock.
RateStart(c) ==
    /\ rate_pc[c] = "idle"
    /\ rate_requests < MaxRequests
    /\ rate_requests' = rate_requests + 1
    /\ rate_at' = [rate_at EXCEPT ![c] = now]
    /\ rate_pc' = [rate_pc EXCEPT ![c] = "get"]
    /\ UNCHANGED <<now, rate_store, admitted>>
    /\ UNCHANGED <<regVars, cfgVars, sessions, response, cache>>

\* RedisClient.get with deserialize=False, default=0: the stored counter, or
\* the default when the key does not exist or the command raises.
RedisGet(store, key, ok) == IF ok THEN store[key].count ELSE 0

\* Lines 83-101: await redis_client.get(rate_key), then the test against
\* settings.rate_limit_per_minute; at the limit the request is answered 429,
\* below it the request goes on and will be let through.
RateGet(c) ==
    /\ rate_pc[c] = "get"
    /\ \E ok \in BOOLEAN :
         LET current_count == RedisGet(rate_store, rate_key(rate_at[c]), ok)
         IN IF current_count >= RateLimitPerMinute
            THEN /\ rate_pc' = [rate_pc EXCEPT ![c] = "idle"]
                 /\ UNCHANGED admitted
            ELSE /\ rate_pc' = [rate_pc EXCEPT ![c] = "incr"]
                 /\ admitted' = [admitted EXCEPT ![rate_at[c]] = @ + 1]
    /\ UNCHANGED <<now, rate_store, rate_at, rate_requests>>
    /\ UNCHANGED <<regVars, cfgVars, sessions, response, cache>>

\* RedisClient.incr: INCR adds one to the counter (a key that does not exist
\* is created without TTL); a command that raises changes nothing.
RedisIncr(store, key, ok) ==
    IF ok THEN [store EXCEPT ![key].count = @ + 1] ELSE store

\* Line 104: await redis_client.incr(rate_key)
RateIncr(c) ==
    /\ rate_pc[c] = "incr"
    /\ \E ok \in BOOLEAN :
         rate_store' = RedisIncr(rate_store, rate_key(rate_at[c]), ok)
    /\ rate_pc' = [rate_pc EXCEPT ![c] = "expire"]
    /\ UNCHANGED <<now, rate_at, rate_requests, admitted>>
    /\ UNCHANGED <<regVars, cfgVars, sessions, response, cache>>

\* RedisClient.expire: EXPIRE sets the TTL of a key that exists.
RedisExpire(store, key, seconds, ok) ==
    IF ok /\ store[key].count > 0
    THEN [store EXCEPT ![key].expires = now + seconds]
    ELSE store

\* Line 105: await redis_client.expire(rate_key, 60); check_rate_limit returns.
RateExpire(c) ==
    /\ rate_pc[c] = "expire"
    /\ \E ok \in BOOLEAN :
         rate_store' = RedisExpire(rate_store, rate_key(rate_at[c]), TicksPerMinute, ok)
    /\ rate_pc' = [rate_pc EXCEPT ![c] = "idle"]
    /\ UNCHANGED <<now, rate_at, rate_requests, admitted>>
    /\ UNCHANGED <<regVars, cfgVars, sessions, response, cache>>

\* Time passes; Redis drops the keys whose TTL has run out.
Tick ==
    /\ now < MaxTime
    /\ now' = now + 1
    /\ rate_store' = [b \in Buckets |->
                        IF rate_store[b].expires # 0 /\ rate_store[b].expires <= now + 1
                        THEN NoCounter ELSE rate_store[b]]
    /\ UNCHANGED <<rate_pc, rate_at, rate_requests, admitted>>
    /\ UNCHANGED <<regVars, cfgVars, sessions, response, cache>>

\* Requests of one API key to the rate-limited endpoints, served concurrently.
RateNext ==
    \/ \E c \in RateClients : RateStart(c) \/ RateGet(c) \/ RateIncr(c) \/ RateExpire(c)
    \/ Tick

RateSpec == Init /\ [][RateNext]_vars

\* ------------------------------------------------------------------ claims
Quiescent == \A p \in Workers : pc[p] \in {"idle", "done"}

\* C1: single-flight load. Of the load_model calls for one name that are in
\* flight together, at most one is inside the loader, so that one loader
\* invocation serves them all and no two handles of a name exist.
C1_SingleFlight ==
    \A m \in ModelNames : Cardinality({p \in Workers : InLoader(p, m)}) <= 1

\* C2: unload racing a load. Whenever all requests have been served, whatever
\* their interleaving, every name is fully loaded (its entry holds all of its
\* parts) or fully absent.
C2_NoTornFinalState ==
    Quiescent => \A m \in RequestNames : ~is_model_loaded(m) \/ FullyLoaded(m)

\* C2 witness: a load and an unload of the same name were both served, the
\* unload found the name absent and the load then committed it whole.
C2_Witness ==
    /\ pc["w1"] = "done" /\ req["w1"].op = "unload" /\ req["w1"].model = "m1"
    /\ pc["w2"] = "done" /\ req["w2"].op = "load" /\ req["w2"].model = "m1"
    /\ result["w1"] = "true" /\ result["w2"] = "true"
    /\ ~req["w1"].loaded /\ ~req["w2"].loaded
    /\ FullyLoaded("m1")

\* C10: handle state monotonicity. An entry present under a name is only ever
\* taken out of the map; no load is committed over it.
C10_NoCommitOverLoaded ==
    [][\A m \in RequestNames :
         loaded_models[m] # NoEntry => loaded_models'[m] \in {loaded_models[m], NoEntry}]_vars

\* C3: a failed load leaves no residue. When load_model has reported failure
\* the name is neither loaded nor being loaded, and get_loaded_models() is what
\* it was when load_model was entered.
C3_FailedLoadNoResidue ==
    \A p \in Workers :
        (pc[p] = "done" /\ req[p].op = "load" /\ result[p] = "false") =>
            /\ ~is_model_loaded(model_name[p])
            /\ \A q \in Workers : ~InLoader(q, model_name[p])
            /\ get_loaded_models = Range(before[p])

\* C3 witness: the loader was invoked and failed while another model was loaded.
C3_Witness ==
    \E p \in Workers :
        /\ pc[p] = "done" /\ req[p].op = "load" /\ result[p] = "false"
        /\ callEv[p] = <<"load">>
        /\ before[p] # <<>>

\* C4: idempotent load. A load without force of a name that is loaded ends
\* with success in that step, invokes no loader, and leaves the map, every
\* entry and its loaded_at as they were.
C4_IdempotentLoad ==
    [][\A p \in Workers :
         ( /\ req[p].op = "load" /\ ~req[p].force
           /\ pc[p] \in {"e_load", "l_check"}
           /\ is_model_loaded(model_name[p])
           /\ pc'[p] # pc[p] )
         => ( /\ pc'[p] = "done" /\ result'[p] = "true"
              /\ callEv'[p] = <<>>
              /\ loaded_models' = loaded_models
              /\ entries' = entries
              /\ clock' = clock )]_vars

\* C4 witness: a second load of a loaded name was answered without a loader call.
C4_Witness ==
    \E p \in Workers :
        /\ pc[p] = "done" /\ req[p].op = "load" /\ ~req[p].force /\ req[p].loaded
        /\ result[p] = "true" /\ callEv[p] = <<>>
        /\ FullyLoaded(model_name[p]) /\ loaded_models[model_name[p]] <= clock

Candidates(p) ==
    SelectSeq(before[p], LAMBDA n : n # current_model /\ n # model_name[p])

\* C7: memory budget. Once a load has completed, the memory of the loaded
\* handles is within the budget, provided an evictable handle existed.
C7_MemoryBudget ==
    \A p \in Workers :
        (pc[p] = "done" /\ req[p].op = "load" /\ result[p] = "true"
            /\ Candidates(p) # <<>>) =>
            TotalMemory <= MaxModelMemoryGB

\* C8: eviction victim. When the handle a load has just committed pushes the
\* total over the budget, the least recently used handle other than the
\* current model and the new handle has been unloaded when the load returns.
C8_EvictionVictim ==
    \A p \in Workers :
        (pc[p] = "done" /\ req[p].op = "load" /\ result[p] = "true"
            /\ callEv[p] # <<>> /\ callEv[p][Len(callEv[p])] = "load"
            /\ SumMemory(Range(before[p]) \cup {model_name[p]}) > MaxModelMemoryGB
            /\ Candidates(p) # <<>>) =>
            ~is_model_loaded(Head(Candidates(p)))

C11_AuthPrecedesRegistry ==
    \A p \in Workers :
        (req[p].op \in {"load", "unload", "generate"} /\ req[p].key \notin ApiKeys) =>
            /\ pc[p] = "done"
            /\ result[p] = "error401"
            /\ model_name[p] = NoModel
            /\ callEv[p] = <<>>

\* C12: generation failures are surfaced. A generate request never ends as a
\* successful response whose text is empty, and a request naming a model
\* without configuration ends with an error.
C12_FailuresSurfaced ==
    \A p \in Workers :
        (pc[p] = "done" /\ req[p].op = "generate") =>
            /\ result[p] # "empty"
            /\ req[p].model = Unconfigured => result[p] \in {"error401", "error500"}

C14_UnloadAbsentNoOp ==
    [][\A p \in Workers :
         ( /\ req[p].op = "unload" /\ pc[p] = "u_check"
           /\ ~is_model_loaded(model_name[p])
           /\ pc'[p] # pc[p] )
         => ( /\ pc'[p] = "done" /\ result'[p] = "true"
              /\ callEv'[p] = <<>>
              /\ loaded_models' = loaded_models
              /\ entries' = entries
              /\ last_used' = last_used
              /\ current_model' = current_model )]_vars

\* C14 witness: an absent name was unloaded while another model was loaded
\* and current.
C14_Witness ==
    \E p \in Workers :
        /\ pc[p] = "done" /\ req[p].op = "unload" /\ req[p].key \in ApiKeys
        /\ ~req[p].loaded /\ result[p] = "true" /\ callEv[p] = <<>>
        /\ current_model \in get_loaded_models \ {model_name[p]}
        /\ FullyLoaded(current_model)

\* C15: /health answers every request with status 200 and a body that holds
\* the fields status, timestamp and services, whatever Redis and the model
\* manager do.
C15_HealthBody ==
    response.endpoint = "health" =>
        /\ response.code = 200
        /\ {"status", "timestamp", "services"} \subseteq response.fields

\* C16: session lifecycle. While Redis is reachable, an authenticated request
\* to the sessions endpoint with one of the actions create, get, update, delete
\* is answered with success, get carries the data stored for the session, and
\* any other action is answered 400.
C16_SessionLifecycle ==
    (response.endpoint = "sessions" /\ response.request[1] \in ApiKeys
        /\ response.request[5]) =>
        IF response.request[3] \in SessionActions
        THEN /\ response.code = 200 /\ response.status = "success"
             /\ response.request[3] = "get" =>
                   response.data = sessions[IF response.request[2] = NoSession
                                            THEN NewSessionId ELSE response.request[2]]
        ELSE response.code = 400

\* C19: parameter merging. Each argument handed to the pipeline is the value
\* the request supplies when it supplies one, a supplied 0 included, and the
\* default of the model configuration when the request leaves the field out.
C19_ParameterMerging ==
    (response.endpoint = "generate" /\ response.code = 200) =>
        \A f \in ParamFields :
            response.sent[f] =
                IF response.request[1][f] = Unspecified
                THEN response.request[2][f]
                ELSE response.request[1][f]

\* The positions of a worker inside unload_model.
UnloadPcs == {"u_check", "u_fetch", "u_del_pipeline", "u_del_model",
              "u_del_tokenizer", "u_del_entry"}

\* C17: unload waits for an in-flight load. An unload request does not go
\* past the first step of unload_model while a load request for the same name
\* is inside load_model.
C17_UnloadWaitsForLoad ==
    [][\A p \in Workers :
         (req[p].op = "unload" /\ pc[p] = "u_check" /\ pc'[p] # "u_check") =>
            ~\E q \in Workers \ {p} :
                /\ req[q].op = "load"
                /\ pc[q] \in LoadPcs
                /\ model_name[q] = model_name[p]]_vars

\* C18: unload failure semantics. Whenever an unload request returns, with
\* True or with False, the name is no longer in the map.
C18_UnloadRemovesEntry ==
    [][\A p \in Workers :
         (req[p].op = "unload" /\ pc[p] \in UnloadPcs /\ pc'[p] = "done") =>
            loaded_models'[model_name[p]] = NoEntry]_vars

RECURSIVE AdmittedIn(_)
AdmittedIn(T) ==
    IF T = {} THEN 0
    ELSE LET t == CHOOSE x \in T : TRUE
         IN admitted[t] + AdmittedIn(T \ {t})

\* C21: sliding-window rate limit. In every interval of one minute, wherever it
\* starts, at most rate_limit_per_minute requests of the API key are let
\* through; every further request of that interval is answered 429.
C21_SlidingWindow ==
    \A t \in Times :
        AdmittedIn({u \in Times : t <= u /\ u < t + TicksPerMinute}) <= RateLimitPerMinute

\* C28: the per-minute counter is never overrun. For every minute bucket the
\* requests let through by check_rate_limit never exceed rate_limit_per_minute,
\* however the concurrent requests interleave.
C28_CounterNotOverrun ==
    \A b \in Buckets :
        AdmittedIn({u \in Times : rate_key(u) = b}) <= RateLimitPerMinute

\* C26: no automatic retry. One load or generate call invokes the loader at
\* most once, and a loading step that has been attempted is not attempted
\* again within the call: the call goes on to the next step or reports the
\* failure to its caller.
C26_NoAutomaticRetry ==
    [][\A p \in Workers :
         /\ Cardinality({i \in 1..Len(callEv'[p]) : callEv'[p][i] = "load"}) <= 1
         /\ (pc[p] = "l_tok" /\ pc'[p] # pc[p]) => pc'[p] \in {"l_model", "done"}]_vars

\* C22: shutdown unloads all. Once the lifespan of the application has been
\* left, the registry holds no handle.
C22_ShutdownUnloadsAll ==
    phase = "stopped" => get_loaded_models = {}

\* C23: auto-load is a policy. A generate for a name that is not loaded, under
\* the explicit-load-only policy, fails in that step without a loader call and
\* leaves the registry as it is; a generate commits a handle only when the
\* auto-load policy is enabled.
C23_AutoLoadPolicy ==
    [][\A p \in Workers :
         /\ ( /\ req[p].op = "generate" /\ pc[p] = "g_check"
              /\ ~is_model_loaded(model_name[p]) /\ ~auto_load
              /\ pc'[p] # pc[p] )
            => ( /\ pc'[p] = "done" /\ result'[p] \notin {"text", "empty"}
                 /\ callEv'[p] = callEv[p]
                 /\ loaded_models' = loaded_models /\ entries' = entries )
         /\ (req[p].op = "generate" /\ pc[p] = "l_commit" /\ pc'[p] # pc[p]) => auto_load]_vars

C24_ConfigImmutable ==
    [][model_configs' = model_configs]_vars

\* C27: well-formed entries. Whatever the interleaving of load_model,
\* unload_model and generate_response, a generate_response that is about to
\* read the entry of its model and finds the name in the map finds an entry
\* that carries pipeline, tokenizer, model, config and loaded_at.
C27_WellFormedEntries ==
    \A p \in Workers :
        (pc[p] = "g_fetch" /\ is_model_loaded(model_name[p])) => FullyLoaded(model_name[p])

\* C29: batch accounting. In every BatchResponse, successful_requests plus
\* failed_requests is the number of requests of the batch, responses has
\* successful_requests elements, and every request whose generation gave a
\* result is answered in it, in order, whatever happened to the requests
\* before it.
C29_BatchAccounting ==
    (response.endpoint = "batch" /\ response.code = 200) =>
        LET requests == response.request[2]
            out == response.data
        IN /\ out.successful_requests + out.failed_requests = Len(requests)
           /\ Len(out.responses) = out.successful_requests
           /\ \A i \in 1..Len(requests) :
                requests[i] = "text" <=> \E j \in 1..Len(out.responses) : out.responses[j] = i
           /\ \A j, k \in 1..Len(out.responses) : j < k => out.responses[j] < out.responses[k]

\* C29 witness: a batch whose first request has no model name, whose second
\* raises and whose third gives a result has been answered.
C29_Witness ==
    /\ response.endpoint = "batch" /\ response.code = 200
    /\ response.request[2] = <<"no_model", "raises", "text">>
    /\ response.data.successful_requests = 1
    /\ response.data.failed_requests = 2

====
